---------------------------- MODULE Spec2Model ----------------------------
(***************************************************************************)
(* Model of the See-Before-You-Eat wizard (src/src/App.tsx), its three     *)
(* mounted components (MenuInput, DishSelector, Contextualizer) and the    *)
(* asynchronous service functions of src/src/services/geminiService.ts.    *)
(*                                                                         *)
(* Text whose content the code inspects (menu text, dish names, the        *)
(* restaurant name) is a sequence of one-character strings.  Text the      *)
(* code only tests for truthiness and passes on (URLs, summaries, image    *)
(* data, error messages) is an opaque token; Null is JavaScript's          *)
(* null/undefined and "" the empty string.                                 *)
(***************************************************************************)
EXTENDS Integers, Sequences, FiniteSets, TLC

\* ------------------------------------------------------------------ bounds

\* Image Synthesizer calls of settled batches that may still be in flight
\* after a reset.
MaxLate == 1

\* ----------------------------------------------------------------- strings

Null == "<null>"

\* JavaScript truthiness of a string-or-null token.
Truthy(x) == x # Null /\ x # ""

\* String.prototype.trim's white space, as far as the inputs use it.
WhiteSpace == {" ", "\n", "\t"}

RECURSIVE TrimLeft(_)
TrimLeft(s) ==
    IF s # <<>> /\ Head(s) \in WhiteSpace THEN TrimLeft(Tail(s)) ELSE s

RECURSIVE TrimRight(_)
TrimRight(s) ==
    IF s # <<>> /\ s[Len(s)] \in WhiteSpace
    THEN TrimRight(SubSeq(s, 1, Len(s) - 1))
    ELSE s

\* s.trim()
Trim(s) == TrimRight(TrimLeft(s))

UpperAlpha ==
    <<"A", "B", "C", "D", "E", "F", "G", "H", "I", "J", "K", "L", "M",
      "N", "O", "P", "Q", "R", "S", "T", "U", "V", "W", "X", "Y", "Z">>
LowerAlpha ==
    <<"a", "b", "c", "d", "e", "f", "g", "h", "i", "j", "k", "l", "m",
      "n", "o", "p", "q", "r", "s", "t", "u", "v", "w", "x", "y", "z">>

IsUpper(c) == \E i \in 1..Len(UpperAlpha) : UpperAlpha[i] = c
IsLower(c) == \E i \in 1..Len(LowerAlpha) : LowerAlpha[i] = c

LowerChar(c) ==
    IF IsUpper(c)
    THEN LowerAlpha[CHOOSE i \in 1..Len(UpperAlpha) : UpperAlpha[i] = c]
    ELSE c

UpperChar(c) ==
    IF IsLower(c)
    THEN UpperAlpha[CHOOSE i \in 1..Len(LowerAlpha) : LowerAlpha[i] = c]
    ELSE c

\* s.toLowerCase()
ToLowerCase(s) == [i \in 1..Len(s) |-> LowerChar(s[i])]

\* s.toUpperCase()
ToUpperCase(s) == [i \in 1..Len(s) |-> UpperChar(s[i])]

\* Array.prototype.findIndex, 1-based; 0 when no element satisfies Test.
FindIndex(s, Test(_)) ==
    IF \E i \in 1..Len(s) : Test(s[i])
    THEN CHOOSE i \in 1..Len(s) : Test(s[i]) /\ \A j \in 1..(i - 1) : ~Test(s[j])
    ELSE 0


\* ------------------------------------------------------------ input domains

\* What the user can have in the menu textarea.
Menu1 == <<"T", "a", "c", "o", " ", "$", "2", "\n", "P", "I", "E", "S">>
TypedTexts == {<<>>, <<" ">>, Menu1}

\* response.text of the OCR call: undefined (None), or the transcribed menu.
OcrTexts == {<<>>, <<Menu1>>}

\* What the user can have in one of the three dish inputs.
DishInputs == {<<>>, <<" ">>, <<"A">>, <<"b">>}

\* What the user can have in the restaurant-name input.
RestaurantInputs == {<<>>, <<" ">>, <<"R">>}

\* How a rejected promise's reason looks to `err instanceof Error`.
ThrowKinds == {"Error", "NonError"}

\* ------------------------------------------------- geminiService.ts (pure)

Digits == {"0", "1", "2", "3", "4", "5", "6", "7", "8", "9"}
AllDigits(s) == \A i \in 1..Len(s) : s[i] \in Digits
Drop(s, n) == SubSeq(s, n + 1, Len(s))

\* s.split("\n")
RECURSIVE Split(_)
Split(s) ==
    LET nl == FindIndex(s, LAMBDA c : c = "\n")
    IN  IF nl = 0 THEN <<s>>
        ELSE <<SubSeq(s, 1, nl - 1)>> \o Split(Drop(s, nl))

\* t matches (,\d{3})*(\.\d+)?$ from its start to its end.
RECURSIVE ThousandsAndFraction(_)
ThousandsAndFraction(t) ==
    \/ t = <<>>
    \/ /\ Len(t) >= 2
       /\ t[1] = "."
       /\ AllDigits(Drop(t, 1))
    \/ /\ Len(t) >= 4
       /\ t[1] = ","
       /\ AllDigits(SubSeq(t, 2, 4))
       /\ ThousandsAndFraction(Drop(t, 4))

\* t matches (\$|\d{1,3}(,\d{3})*(\.\d+)?)\s*$ from its start to its end.
PriceToken(t) ==
    LET core == TrimRight(t)
    IN  \/ core = <<"$">>
        \/ \E k \in 1..3 :
              /\ Len(core) >= k
              /\ AllDigits(SubSeq(core, 1, k))
              /\ ThousandsAndFraction(Drop(core, k))

\* t matches the whole pattern (\s*(\$|\d{1,3}(,\d{3})*(\.\d+)?)\s*)$ from
\* its start: some white-space prefix of t is followed by a price token.
PriceSuffix(t) ==
    \E k \in 0..Len(t) :
        /\ \A i \in 1..k : t[i] \in WhiteSpace
        /\ PriceToken(Drop(t, k))

\* line.replace(/(\s*(\$|\d{1,3}(,\d{3})*(\.\d+)?)\s*)$/, ""): the leftmost
\* position from which the pattern matches to the end is cut off.
StripPrice(line) ==
    LET at == {p \in 1..Len(line) : PriceSuffix(Drop(line, p - 1))}
    IN  IF at = {} THEN line
        ELSE SubSeq(line, 1, (CHOOSE p \in at : \A q \in at : p <= q) - 1)

\* The filter with its two length bounds inclusive.
KeepLineInclusive(line) ==
    /\ line # <<>>
    /\ Len(line) >= 3
    /\ Len(line) <= 50
    /\ \E i \in 1..Len(line) : IsUpper(line[i]) \/ IsLower(line[i])
    /\ ToUpperCase(line) # line

\* The filter of the heuristic fallback.
KeepLine(line) ==
    /\ line # <<>>
    /\ Len(line) > 3
    /\ Len(line) < 50
    /\ \E i \in 1..Len(line) : IsUpper(line[i]) \/ IsLower(line[i])
    /\ ToUpperCase(line) # line

\* The catch block of extractDishesFromMenu.
HeuristicDishes(text) ==
    LET lines == Split(text)
        stripped == [i \in 1..Len(lines) |-> StripPrice(Trim(lines[i]))]
    IN  SelectSeq(stripped, KeepLine)

\* getMenuTextFromImage: response.text ?? ""
getMenuTextFromImage(responseText) ==
    IF responseText = <<>> THEN <<>> ELSE responseText[1]

\* The mapping of the chunks without the filter on the placeholder.
GroundingSourcesUnfiltered(metadata) ==
    IF metadata = <<>> THEN <<>>
    ELSE LET chunks == metadata[1]
         IN  [i \in 1..Len(chunks) |->
                [title |-> IF Truthy(chunks[i].title)
                           THEN chunks[i].title ELSE "Untitled",
                 uri |-> IF Truthy(chunks[i].uri) THEN chunks[i].uri ELSE "#"]]

\* The sources of getContextualInfo.  metadata is None when the response has
\* no groundingMetadata or no groundingChunks; a chunk's title and uri are
\* Null when chunk.web or the field is missing.
GroundingSources(metadata) ==
    IF metadata = <<>> THEN <<>>
    ELSE LET chunks == metadata[1]
             mapped == [i \in 1..Len(chunks) |->
                          [title |-> IF Truthy(chunks[i].title)
                                     THEN chunks[i].title ELSE "Untitled",
                           uri |-> IF Truthy(chunks[i].uri)
                                   THEN chunks[i].uri ELSE "#"]]
         IN  SelectSeq(mapped, LAMBDA source : source.uri # "#")

\* What JSON.parse(jsonResponse.text?.trim() ?? "{}") evaluates to.  The
\* response is [text |-> "missing", value |-> v] (text undefined),
\* [text |-> "invalid", value |-> v] (not JSON: JSON.parse throws) or
\* [text |-> "json", value |-> v]; v is read only in the last case, and is
\* the JSON null, [kind |-> "null", ...], or an object
\* [kind |-> "object", summary, hasDishContexts, dishContexts], each entry of
\* dishContexts being [hasName, dishName, imageUrl].
EmptyObject ==
    [kind |-> "object", summary |-> Null, hasDishContexts |-> FALSE,
     dishContexts |-> <<>>]

ParseThrows(response) == response.text = "invalid"

Parsed(response) ==
    IF response.text = "missing" THEN EmptyObject ELSE response.value

\* The comparison without toLowerCase.
NameMatchesExactly(dc, dishName) == dc.hasName /\ dc.dishName = dishName

\* dc.dishName.toLowerCase() === dishName.toLowerCase()
NameMatches(dc, dishName) ==
    dc.hasName /\ ToLowerCase(dc.dishName) = ToLowerCase(dishName)

\* parsed.dishContexts?.find(...): the index of the entry found, 0 for
\* undefined.
FoundContext(parsed, dishName) ==
    IF parsed.hasDishContexts
    THEN FindIndex(parsed.dishContexts, LAMBDA dc : NameMatches(dc, dishName))
    ELSE 0

\* The find callback throws a TypeError when it reaches an entry without a
\* dishName before it has found a match.
FindThrows(parsed, dishName) ==
    /\ parsed.hasDishContexts
    /\ \E i \in 1..Len(parsed.dishContexts) :
          /\ ~parsed.dishContexts[i].hasName
          /\ \A j \in 1..(i - 1) : ~NameMatches(parsed.dishContexts[j], dishName)

\* Lines 208-225 throw: JSON.parse, a property read of null, or find.
PostProcessThrows(response, dishes) ==
    \/ ParseThrows(response)
    \/ Parsed(response).kind = "null"
    \/ \E i \in 1..Len(dishes) : FindThrows(Parsed(response), dishes[i])

\* finalDishContexts
FinalDishContexts(parsed, dishes) ==
    [i \in 1..Len(dishes) |->
        LET found == FoundContext(parsed, dishes[i])
        IN  [dishName |-> dishes[i],
             imageUrl |-> IF found # 0 /\ Truthy(parsed.dishContexts[found].imageUrl)
                          THEN parsed.dishContexts[found].imageUrl
                          ELSE Null]]

NoSummary == "No summary could be generated."

\* The value getContextualInfo returns.
ContextualInfoOf(response, sources, dishes) ==
    LET parsed == Parsed(response)
    IN  [summary |-> IF Truthy(parsed.summary) THEN parsed.summary ELSE NoSummary,
         dishContexts |-> FinalDishContexts(parsed, dishes),
         sources |-> sources]

\* --------------------------------------------------------------- AppStep

MENU_INPUT == "MENU_INPUT"
DISH_SELECTION == "DISH_SELECTION"
CONTEXT_INPUT == "CONTEXT_INPUT"
CONTEXT_VALIDATION == "CONTEXT_VALIDATION"
GENERATING == "GENERATING"
RESULTS == "RESULTS"

AppStep ==
    {MENU_INPUT, DISH_SELECTION, CONTEXT_INPUT, CONTEXT_VALIDATION, GENERATING, RESULTS}

\* --------------------------------------------------------------- variables

VARIABLES
    \* App (useState hooks)
    step, isLoading, error, menuText, dishNames, contextualInfo, generatedDishes,
    \* MenuInput: mode, text, error, and the position of processFile
    miMode, miText, miError, ocr,
    \* DishSelector: dishes, allDishes, isLoadingDishes, error, and whether the
    \* extractDishesFromMenu call of its effect is in flight
    dsDishes, dsAllDishes, dsLoading, dsError, dsCall,
    \* Contextualizer: restaurantName
    restaurantName,
    \* the getContextualInfo invocation in flight
    ctx,
    \* the generateImageForDish invocations of the latest batch, the state of
    \* its Promise.all, and the number of invocations of earlier batches that
    \* have not settled yet
    calls, batch, late,
    \* last: the last event that wrote state of App; pre: the menuText and
    \* dishNames the running asynchronous handler has closed over; origin: what
    \* started the latest batch; visited: the steps entered since the last
    \* reset; resolverCalls: the getContextualInfo calls issued since then
    last, pre, origin, visited, resolverCalls,
    \* the arguments and the result of a service function applied on its own
    input, output

appVars == <<step, isLoading, error, menuText, dishNames, contextualInfo, generatedDishes>>
miVars == <<miMode, miText, miError, ocr>>
dsVars == <<dsDishes, dsAllDishes, dsLoading, dsError, dsCall>>
cxVars == <<restaurantName, ctx>>
genVars == <<calls, batch, late>>
histVars == <<pre, origin, resolverCalls>>
pureVars == <<input, output>>
vars == <<appVars, miVars, dsVars, cxVars, genVars, histVars, visited, last, pureVars>>

\* An optional value: <<>> is null, <<v>> is v.
None == <<>>
Some(v) == <<v>>

\* The initial local state of each component (a fresh mount).
MenuInputMount ==
    /\ miMode = "image"
    /\ miText = <<>>
    /\ miError = Null
    /\ ocr = "idle"

DishSelectorUnmounted ==
    /\ dsDishes = <<<<>>, <<>>, <<>>>>
    /\ dsAllDishes = <<>>
    /\ dsLoading = TRUE
    /\ dsError = Null

\* No getContextualInfo call is running.  searches and extractions count the
\* model calls the last invocation has issued, failedAt is where it failed.
CtxIdle ==
    [pc |-> "idle", sources |-> <<>>, searches |-> 0, extractions |-> 0,
     failedAt |-> "none"]
NoPre == [menuText |-> <<>>, dishNames |-> <<>>]

\* The wizard after construction.
InitWizard ==
    /\ step = MENU_INPUT
    /\ isLoading = FALSE
    /\ error = Null
    /\ menuText = <<>>
    /\ dishNames = <<>>
    /\ contextualInfo = None
    /\ generatedDishes = <<>>
    /\ MenuInputMount
    /\ DishSelectorUnmounted
    /\ dsCall = "idle"
    /\ restaurantName = <<>>
    /\ ctx = CtxIdle
    /\ calls = <<>>
    /\ batch = "none"
    /\ late = 0
    /\ last = "init"
    /\ pre = NoPre
    /\ origin = "none"
    /\ visited = {MENU_INPUT}
    /\ resolverCalls = 0

Init ==
    /\ InitWizard
    /\ input = <<>>
    /\ output = <<>>


\* ------------------------------------------------------------- App handlers

ErrUnknown == "An unknown error occurred."
ErrContext == "Context search failed: <message>"
ErrGenApi == "Image generation failed: <message>"
ErrGenNoImage ==
    "Image generation failed: Image generation failed. The model did not return an image."

\* handleError
handleError(message) ==
    /\ error' = message
    /\ isLoading' = FALSE

\* resetState with setGeneratedDishes([]) forgotten.
resetStateKeepsDishes ==
    /\ step' = MENU_INPUT
    /\ isLoading' = FALSE
    /\ error' = Null
    /\ menuText' = <<>>
    /\ dishNames' = <<>>
    /\ contextualInfo' = <<>>
    /\ UNCHANGED generatedDishes

\* resetState with setContextualInfo(null) forgotten.
resetStateKeepsContext ==
    /\ step' = MENU_INPUT
    /\ isLoading' = FALSE
    /\ error' = Null
    /\ menuText' = <<>>
    /\ dishNames' = <<>>
    /\ generatedDishes' = <<>>
    /\ UNCHANGED contextualInfo

\* resetState
resetState ==
    /\ step' = MENU_INPUT
    /\ isLoading' = FALSE
    /\ error' = Null
    /\ menuText' = <<>>
    /\ dishNames' = <<>>
    /\ contextualInfo' = None
    /\ generatedDishes' = <<>>

\* handleMenuProcessed advancing one step too far.
handleMenuProcessedSkipsSelection(text) ==
    /\ menuText' = text
    /\ step' = CONTEXT_INPUT
    /\ isLoading' = FALSE
    /\ UNCHANGED <<error, dishNames, contextualInfo, generatedDishes>>

\* handleMenuProcessed
handleMenuProcessed(text) ==
    /\ menuText' = text
    /\ step' = DISH_SELECTION
    /\ isLoading' = FALSE
    /\ UNCHANGED <<error, dishNames, contextualInfo, generatedDishes>>

\* handleDishesSelected
handleDishesSelected(dishes) ==
    /\ dishNames' = dishes
    /\ step' = CONTEXT_INPUT
    /\ UNCHANGED <<isLoading, error, menuText, contextualInfo, generatedDishes>>

\* renderStep: what is on screen.
ErrorOverlay == Truthy(error)
MenuInputShown == ~ErrorOverlay /\ step = MENU_INPUT
DishSelectorShown == ~ErrorOverlay /\ step = DISH_SELECTION
\* renderStep without the early return of the error overlay.
ContextualizerShownUnderError == step \in {CONTEXT_INPUT, CONTEXT_VALIDATION}
ContextualizerShown == ~ErrorOverlay /\ step \in {CONTEXT_INPUT, CONTEXT_VALIDATION}
ImageGalleryShown == ~ErrorOverlay /\ step = RESULTS

\* Components leaving the screen lose their local state.
UnmountMenuInput ==
    /\ miMode' = "image"
    /\ miText' = <<>>
    /\ miError' = Null
    /\ ocr' = "idle"

UnmountContextualizer == restaurantName' = <<>>

\* History: the step of the next state has been entered.
Visit == visited' = visited \cup {step'}


\* ----------------------------------------------------- generateImageForDish

\* One invocation.  pc is where it is suspended: "fetch" (urlToGenerativePart),
\* "i2i" (the gemini-2.5-flash-image-preview call), "t2i" (the imagen call),
\* or it has settled: "resolved" with result, "rejected" with err.  i2iCalls
\* and t2iCalls count the model calls issued, refFailed says that the
\* reference-guided strategy ended without an image, t2iOut is what the
\* text-to-image call answered.
I2IImages == <<"i2i-image-1", "i2i-image-2", "i2i-image-3">>
T2IImages == <<"t2i-image-1", "t2i-image-2", "t2i-image-3">>

FetchOutcomes == {"throws", "notOk", "notImage", "readError", "image"}
I2IOutcomes == {"throws", "noCandidates", "noInlinePart", "inlineWithoutData", "inlineData"}
T2IOutcomes == {"throws", "throwsNonError", "noGeneratedImages", "emptyBytes", "imageBytes"}

\* The fallback strategy, lines 266-286: the imagen call is issued.
StartTextToImage(call, failedReference) ==
    [call EXCEPT !.pc = "t2i", !.t2iCalls = @ + 1, !.refFailed = failedReference]

\* Lines 233-237: the invocation up to its first await.
StartCall(dishName, contextualSummary, referenceImageUrl) ==
    LET call == [name |-> dishName, summary |-> contextualSummary,
                 refUrl |-> referenceImageUrl, pc |-> "fetch", i2iCalls |-> 0,
                 t2iCalls |-> 0, refFailed |-> FALSE, t2iOut |-> "none",
                 result |-> Null, err |-> Null]
    IN  IF Truthy(referenceImageUrl) THEN call ELSE StartTextToImage(call, FALSE)

\* urlToGenerativePart settles (lines 23-56); a part starts the
\* image-to-image call, no part the fallback.
AfterFetch(call, outcome) ==
    IF outcome = "image"
    THEN [call EXCEPT !.pc = "i2i", !.i2iCalls = @ + 1]
    ELSE StartTextToImage(call, TRUE)

\* The image-to-image call without its try/catch: an exception rejects the
\* invocation.
AfterImageToImageNoCatch(call, outcome, i) ==
    CASE outcome = "inlineData" ->
            [call EXCEPT !.pc = "resolved", !.result = I2IImages[i]]
      [] outcome = "inlineWithoutData" ->
            [call EXCEPT !.pc = "resolved", !.result = ""]
      [] outcome = "throws" ->
            [call EXCEPT !.pc = "rejected", !.err = "ApiError"]
      [] OTHER -> StartTextToImage(call, TRUE)

\* The image-to-image call with the return of line 254 missing: the image is
\* found and the function goes on to the fallback.
AfterImageToImageFallsThrough(call, outcome, i) ==
    CASE outcome = "inlineData" ->
            StartTextToImage([call EXCEPT !.result = I2IImages[i]], FALSE)
      [] outcome = "inlineWithoutData" ->
            StartTextToImage([call EXCEPT !.result = ""], FALSE)
      [] OTHER -> StartTextToImage(call, TRUE)

\* The image-to-image call settles (lines 244-262).
AfterImageToImage(call, outcome, i) ==
    CASE outcome = "inlineData" ->
            [call EXCEPT !.pc = "resolved", !.result = I2IImages[i]]
      [] outcome = "inlineWithoutData" ->
            [call EXCEPT !.pc = "resolved", !.result = ""]
      [] OTHER -> StartTextToImage(call, TRUE)

\* The text-to-image call with an empty image in place of the throw of
\* lines 292-294.
AfterTextToImageEmptyImage(call, outcome, i) ==
    CASE outcome = "imageBytes" ->
            [call EXCEPT !.pc = "resolved", !.t2iOut = T2IImages[i],
                         !.result = T2IImages[i]]
      [] outcome \in {"noGeneratedImages", "emptyBytes"} ->
            [call EXCEPT !.pc = "resolved", !.t2iOut = "noImage", !.result = ""]
      [] outcome = "throws" ->
            [call EXCEPT !.pc = "rejected", !.t2iOut = "threw", !.err = "ApiError"]
      [] OTHER ->
            [call EXCEPT !.pc = "rejected", !.t2iOut = "threw", !.err = "NonError"]

\* The text-to-image call settles (lines 278-294).
AfterTextToImage(call, outcome, i) ==
    CASE outcome = "imageBytes" ->
            [call EXCEPT !.pc = "resolved", !.t2iOut = T2IImages[i],
                         !.result = T2IImages[i]]
      [] outcome \in {"noGeneratedImages", "emptyBytes"} ->
            [call EXCEPT !.pc = "rejected", !.t2iOut = "noImage",
                         !.err = "NoImageError"]
      [] outcome = "throws" ->
            [call EXCEPT !.pc = "rejected", !.t2iOut = "threw", !.err = "ApiError"]
      [] OTHER ->
            [call EXCEPT !.pc = "rejected", !.t2iOut = "threw", !.err = "NonError"]

Settled(call) == call.pc \in {"resolved", "rejected"}
Pending(cs) == Cardinality({i \in 1..Len(cs) : ~Settled(cs[i])})

\* -------------------------------------------------------- generateAllImages

\* dishCtx?.imageUrl || null, with dishCtx the first entry of the context
\* whose dishName is exactly name.
ReferenceFor(context, name) ==
    IF context = <<>> THEN Null
    ELSE LET found == FindIndex(context[1].dishContexts,
                                LAMBDA c : c.dishName = name)
         IN  IF found # 0 /\ Truthy(context[1].dishContexts[found].imageUrl)
             THEN context[1].dishContexts[found].imageUrl
             ELSE Null

\* context?.summary with the fallback text of getContextualInfo in place of
\* null.
SummaryForDefault(context) ==
    IF context # <<>> /\ Truthy(context[1].summary) THEN context[1].summary
    ELSE NoSummary

\* context?.summary || null
SummaryFor(context) ==
    IF context # <<>> /\ Truthy(context[1].summary) THEN context[1].summary ELSE Null

\* Lines 83-98: the synchronous part, up to the await of Promise.all.  An
\* empty list of promises is fulfilled at once.
generateAllImages(context, startedBy) ==
    /\ error' = Null
    /\ calls' = [i \in 1..Len(dishNames) |->
                    StartCall(dishNames[i], SummaryFor(context),
                              ReferenceFor(context, dishNames[i]))]
    /\ IF dishNames = <<>>
       THEN /\ step' = RESULTS
            /\ isLoading' = FALSE
            /\ batch' = "fulfilled"
       ELSE /\ step' = GENERATING
            /\ isLoading' = TRUE
            /\ batch' = "waiting"
    /\ late' = late + Pending(calls)
    /\ pre' = [menuText |-> menuText, dishNames |-> dishNames]
    /\ origin' = startedBy
    /\ UNCHANGED <<menuText, dishNames, generatedDishes, resolverCalls>>

\* Lines 106-110: the message of the catch block.
GenerationError(err) ==
    CASE err = "NoImageError" -> ErrGenNoImage
      [] err = "ApiError" -> ErrGenApi
      [] OTHER -> ErrUnknown

\* Promise.allSettled in place of Promise.all: never rejected, fulfilled
\* when every promise has settled.
PromiseAllSettled(was, cs, i) ==
    CASE was # "waiting" -> was
      [] \A j \in 1..Len(cs) : Settled(cs[j]) -> "fulfilled"
      [] OTHER -> "waiting"

\* A combinator that is fulfilled when every promise is and is never
\* rejected: it stays pending once a promise has been rejected.
PromiseAllNeverRejected(was, cs, i) ==
    CASE was # "waiting" -> was
      [] \A j \in 1..Len(cs) : cs[j].pc = "resolved" -> "fulfilled"
      [] OTHER -> "waiting"

\* Promise.all: rejected by the first rejection, fulfilled when every promise is.
PromiseAll(was, cs, i) ==
    CASE was # "waiting" -> was
      [] cs[i].pc = "rejected" -> "rejected"
      [] \A j \in 1..Len(cs) : cs[j].pc = "resolved" -> "fulfilled"
      [] OTHER -> "waiting"

\* The code after the await with each dish given the image of the first
\* invocation for a dish of its name.
AfterAwaitByName(cs, i) ==
    LET now == PromiseAll(batch, cs, i)
    IN  /\ calls' = cs
        /\ batch' = now
        /\ IF batch = "waiting" /\ now = "fulfilled"
           THEN /\ generatedDishes' =
                      [k \in 1..Len(pre.dishNames) |->
                          [name |-> pre.dishNames[k],
                           imageBase64 |->
                              cs[FindIndex(cs, LAMBDA c : c.name = pre.dishNames[k])].result]]
                /\ step' = RESULTS
                /\ isLoading' = FALSE
                /\ UNCHANGED error
           ELSE IF batch = "waiting" /\ now = "rejected"
           THEN /\ handleError(GenerationError(cs[i].err))
                /\ step' = CONTEXT_INPUT
                /\ UNCHANGED generatedDishes
           ELSE UNCHANGED <<step, isLoading, error, generatedDishes>>
        /\ UNCHANGED <<menuText, dishNames, contextualInfo>>

\* Lines 98-114, run when invocation i has moved on and the calls are cs: the
\* code after the await, once Promise.all has settled.
AfterAwait(cs, i) ==
    LET now == PromiseAll(batch, cs, i)
    IN  /\ calls' = cs
        /\ batch' = now
        /\ IF batch = "waiting" /\ now = "fulfilled"
           THEN /\ generatedDishes' =
                      [k \in 1..Len(pre.dishNames) |->
                          [name |-> pre.dishNames[k], imageBase64 |-> cs[k].result]]
                /\ step' = RESULTS
                /\ isLoading' = FALSE
                /\ UNCHANGED error
           ELSE IF batch = "waiting" /\ now = "rejected"
           THEN /\ handleError(GenerationError(cs[i].err))
                /\ step' = CONTEXT_INPUT
                /\ UNCHANGED generatedDishes
           ELSE UNCHANGED <<step, isLoading, error, generatedDishes>>
        /\ UNCHANGED <<menuText, dishNames, contextualInfo>>


\* --------------------------------------------------------------- MenuInput

MenuInputIdle == MenuInputShown /\ ~isLoading

\* The two mode buttons.
SetMode(mode) ==
    /\ MenuInputIdle
    /\ mode # miMode
    /\ miMode' = mode
    /\ UNCHANGED last
    /\ UNCHANGED <<appVars, miText, miError, ocr, dsVars, cxVars, genVars, histVars, pureVars>>
    /\ Visit

\* The textarea's onChange.
SetText(text) ==
    /\ MenuInputIdle
    /\ miMode = "text"
    /\ text # miText
    /\ miText' = text
    /\ UNCHANGED last
    /\ UNCHANGED <<appVars, miMode, miError, ocr, dsVars, cxVars, genVars, histVars, pureVars>>
    /\ Visit

\* DishSelector mounts with menu text `text`: its effect calls
\* extractDishesFromMenu, which resolves at once with [] for blank text and
\* otherwise issues the AI call.
MountDishSelector(text) ==
    /\ dsDishes' = <<<<>>, <<>>, <<>>>>
    /\ dsAllDishes' = <<>>
    /\ dsError' = Null
    /\ IF Trim(text) = <<>>
       THEN dsLoading' = FALSE /\ dsCall' = "idle"
       ELSE dsLoading' = TRUE /\ dsCall' = "calling"

\* handleTextSubmit
HandleTextSubmit ==
    /\ MenuInputIdle
    /\ miMode = "text"
    /\ IF Trim(miText) = <<>>
       THEN /\ miError' = "Please paste some menu text."
            /\ UNCHANGED last
            /\ UNCHANGED <<appVars, miMode, miText, ocr, dsVars>>
       ELSE /\ handleMenuProcessed(miText)
            /\ UnmountMenuInput
            /\ MountDishSelector(miText)
            /\ last' = "menuProcessed"
    /\ UNCHANGED <<cxVars, genVars, histVars, pureVars>>
    /\ Visit

\* processFile up to reader.readAsDataURL.
ProcessFile(isImage) ==
    /\ MenuInputIdle
    /\ miMode = "image"
    /\ ocr = "idle"
    /\ IF isImage
       THEN /\ miError' = Null
            /\ isLoading' = TRUE
            /\ ocr' = "reading"
            /\ last' = "processFile"
       ELSE /\ miError' = "Please upload an image file."
            /\ UNCHANGED last
            /\ UNCHANGED <<isLoading, ocr>>
    /\ UNCHANGED <<step, error, menuText, dishNames, contextualInfo, generatedDishes,
                   miMode, miText, dsVars, cxVars, genVars, histVars, pureVars>>
    /\ Visit

\* reader.onload up to the await of extractTextFromImage.
ReaderLoad(hasBase64) ==
    /\ ocr = "reading"
    /\ IF hasBase64
       THEN /\ ocr' = "calling"
            /\ UNCHANGED <<isLoading, miError>>
       ELSE /\ miError' = "Could not read file."
            /\ isLoading' = FALSE
            /\ ocr' = "idle"
    /\ last' = "readerLoad"
    /\ UNCHANGED <<step, error, menuText, dishNames, contextualInfo, generatedDishes,
                   miMode, miText, dsVars, cxVars, genVars, histVars, pureVars>>
    /\ Visit

\* reader.onerror
ReaderError ==
    /\ ocr = "reading"
    /\ miError' = "Failed to read the file."
    /\ isLoading' = FALSE
    /\ ocr' = "idle"
    /\ last' = "readerError"
    /\ UNCHANGED <<step, error, menuText, dishNames, contextualInfo, generatedDishes,
                   miMode, miText, dsVars, cxVars, genVars, histVars, pureVars>>
    /\ Visit

\* getMenuTextFromImage resolves: the rest of reader.onload's try block.
OcrResolve(responseText) ==
    /\ ocr = "calling"
    /\ handleMenuProcessed(getMenuTextFromImage(responseText))
    /\ UnmountMenuInput
    /\ MountDishSelector(getMenuTextFromImage(responseText))
    /\ last' = "ocrResolved"
    /\ UNCHANGED <<cxVars, genVars, histVars, pureVars>>
    /\ Visit

\* reader.onload's catch block without onProcessing(false).
OcrRejectKeepsLoading(kind) ==
    /\ ocr = "calling"
    /\ miError' = IF kind = "Error" THEN "<OCR error message>"
                  ELSE "An unknown error occurred during image processing."
    /\ ocr' = "idle"
    /\ last' = "ocrRejected"
    /\ UNCHANGED <<step, isLoading, error, menuText, dishNames, contextualInfo,
                   generatedDishes, miMode, miText, dsVars, cxVars, genVars,
                   histVars, pureVars>>
    /\ Visit

\* getMenuTextFromImage rejects: reader.onload's catch block.
OcrReject(kind) ==
    /\ ocr = "calling"
    /\ miError' = IF kind = "Error" THEN "<OCR error message>"
                  ELSE "An unknown error occurred during image processing."
    /\ isLoading' = FALSE
    /\ ocr' = "idle"
    /\ last' = "ocrRejected"
    /\ UNCHANGED <<step, error, menuText, dishNames, contextualInfo, generatedDishes,
                   miMode, miText, dsVars, cxVars, genVars, histVars, pureVars>>
    /\ Visit


\* ------------------------------------------------------------- DishSelector

\* How the AI call of extractDishesFromMenu can end, and the string arrays a
\* well-formed answer may hold.
ExtractOutcomes ==
    {"transportError", "textMissing", "invalidJson", "notArray",
     "nonStringElement", "stringArray"}
AiDishLists == {<<>>, <<<<"T", "a", "c", "o">>>>}

\* extractDishesFromMenu without lines 61-63: the AI call is issued for a
\* blank menu too.
extractDishesFromMenuNoShortCircuit(text, outcome, aiDishes) ==
    IF outcome = "stringArray" THEN aiDishes ELSE HeuristicDishes(text)

\* extractDishesFromMenu with the array check left out: whatever array the
\* model has returned is passed on.
extractDishesFromMenuUnchecked(text, outcome, aiDishes) ==
    IF Trim(text) = <<>> THEN <<>>
    ELSE IF outcome \in {"stringArray", "nonStringElement"} THEN aiDishes
    ELSE HeuristicDishes(text)

\* What extractDishesFromMenu resolves with: [] for a blank menu (lines
\* 61-63, no AI call), else what its AI call ending with `outcome` leads to
\* (lines 87-113).
extractDishesFromMenu(text, outcome, aiDishes) ==
    IF Trim(text) = <<>> THEN <<>>
    ELSE IF outcome = "stringArray" THEN aiDishes
    ELSE HeuristicDishes(text)

\* fetchDishes after its await.
ExtractSettle(outcome, aiDishes) ==
    /\ dsCall = "calling"
    /\ dsCall' = "idle"
    /\ IF DishSelectorShown
       THEN /\ dsAllDishes' = extractDishesFromMenu(menuText, outcome, aiDishes)
            /\ dsLoading' = FALSE
       ELSE UNCHANGED <<dsAllDishes, dsLoading>>
    /\ UNCHANGED last
    /\ UNCHANGED <<appVars, miVars, dsDishes, dsError, cxVars, genVars, histVars, pureVars>>
    /\ Visit

\* handleDishChange with the inputs rendered while the suggestions load.
HandleDishChangeWhileLoading(index, value) ==
    /\ DishSelectorShown
    /\ dsDishes[index] # value
    /\ dsDishes' = [dsDishes EXCEPT ![index] = value]
    /\ UNCHANGED last
    /\ UNCHANGED <<appVars, miVars, dsAllDishes, dsLoading, dsError, dsCall,
                   cxVars, genVars, histVars, pureVars>>
    /\ Visit

\* handleDishChange: the inputs are rendered once the suggestions are loaded.
HandleDishChange(index, value) ==
    /\ DishSelectorShown
    /\ ~dsLoading
    /\ dsDishes[index] # value
    /\ dsDishes' = [dsDishes EXCEPT ![index] = value]
    /\ UNCHANGED last
    /\ UNCHANGED <<appVars, miVars, dsAllDishes, dsLoading, dsError, dsCall,
                   cxVars, genVars, histVars, pureVars>>
    /\ Visit

\* handleSubmit without the filter on blank inputs.
HandleSubmitUnfiltered ==
    /\ DishSelectorShown
    /\ handleDishesSelected(dsDishes)
    /\ dsDishes' = <<<<>>, <<>>, <<>>>>
    /\ dsAllDishes' = <<>>
    /\ dsLoading' = TRUE
    /\ dsError' = Null
    /\ last' = "dishesSelected"
    /\ UNCHANGED <<miVars, dsCall, cxVars, genVars, histVars, pureVars>>
    /\ Visit

\* handleSubmit
HandleSubmit ==
    /\ DishSelectorShown
    /\ LET selectedDishes == SelectSeq(dsDishes, LAMBDA d : Trim(d) # <<>>)
       IN  IF selectedDishes = <<>>
           THEN /\ dsError' = "Please enter at least one dish name."
                /\ UNCHANGED last
                /\ UNCHANGED <<appVars, dsDishes, dsAllDishes, dsLoading>>
           ELSE /\ handleDishesSelected(selectedDishes)
                /\ dsDishes' = <<<<>>, <<>>, <<>>>>
                /\ dsAllDishes' = <<>>
                /\ dsLoading' = TRUE
                /\ dsError' = Null
                /\ last' = "dishesSelected"
    /\ UNCHANGED <<miVars, dsCall, cxVars, genVars, histVars, pureVars>>
    /\ Visit

\* ----------------------------------------------------------- Contextualizer

\* What Contextualizer renders: the spinner, the found context, or the input.
SearchInputShown == ContextualizerShown /\ ~isLoading /\ contextualInfo = <<>>
ContextFoundShown == ContextualizerShown /\ contextualInfo # <<>>

\* The input's onChange.
SetRestaurantName(name) ==
    /\ SearchInputShown
    /\ name # restaurantName
    /\ restaurantName' = name
    /\ UNCHANGED last
    /\ UNCHANGED <<appVars, miVars, dsVars, ctx, genVars, histVars, pureVars>>
    /\ Visit

\* handleContextDecision: arg is None for null.
\* handleContextDecision with the test of useContext inverted.
handleContextDecisionInverted(arg) ==
    /\ generateAllImages(IF arg = <<>> THEN contextualInfo ELSE <<>>,
                         IF arg # <<>> THEN "accept" ELSE "reject")
    /\ UnmountContextualizer
    /\ UNCHANGED <<contextualInfo, ctx>>

handleContextDecision(arg) ==
    /\ generateAllImages(IF arg # <<>> THEN contextualInfo ELSE <<>>,
                         IF arg # <<>> THEN "accept" ELSE "reject")
    /\ UnmountContextualizer
    /\ UNCHANGED <<contextualInfo, ctx>>

\* handleContextualize up to its await (a search), or all of it (a skip).
\* loading is isLoading as the caller has set it.
handleContextualize(arg, loading) ==
    IF arg # <<>> /\ arg[1] # <<>>
    THEN /\ ctx' = [CtxIdle EXCEPT !.pc = "search", !.searches = 1]
         /\ isLoading' = loading
         /\ pre' = [menuText |-> menuText, dishNames |-> dishNames]
         /\ resolverCalls' = resolverCalls + 1
         /\ UNCHANGED <<step, error, menuText, dishNames, contextualInfo,
                        generatedDishes, restaurantName, genVars, origin>>
    ELSE /\ contextualInfo' = <<>>
         /\ generateAllImages(<<>>, "skip")
         /\ UnmountContextualizer
         /\ UNCHANGED ctx

\* The onContextualize prop of renderStep.
onContextualize(arg, loading) ==
    IF step = CONTEXT_VALIDATION
    THEN handleContextDecision(arg)
    ELSE handleContextualize(arg, loading)

\* handleSearch: onProcessing(true), then onContextualize(restaurantName).
HandleSearch ==
    /\ SearchInputShown
    /\ Trim(restaurantName) # <<>>
    /\ onContextualize(<<restaurantName>>, TRUE)
    /\ last' = "search"
    /\ UNCHANGED <<miVars, dsVars, pureVars>>
    /\ Visit

\* The "Skip and generate generic images" button.
Skip ==
    /\ SearchInputShown
    /\ onContextualize(<<>>, isLoading)
    /\ last' = "skip"
    /\ UNCHANGED <<miVars, dsVars, pureVars>>
    /\ Visit

\* handleFinalize
HandleFinalize(useContext) ==
    /\ ContextFoundShown
    /\ onContextualize(IF useContext THEN <<restaurantName>> ELSE <<>>, isLoading)
    /\ last' = IF useContext THEN "accept" ELSE "reject"
    /\ UNCHANGED <<miVars, dsVars, pureVars>>
    /\ Visit


\* ------------------------------------ getContextualInfo, handleContextualize

\* groundingMetadata of the search response: None, or its groundingChunks.
GroundingMetadatas ==
    {<<>>,
     <<<<[title |-> Null, uri |-> Null], [title |-> Null, uri |-> "https://source"]>>>>}

Entry(name, url) == [hasName |-> TRUE, dishName |-> name, imageUrl |-> url]
Object(summary, entries) ==
    [kind |-> "object", summary |-> summary, hasDishContexts |-> TRUE,
     dishContexts |-> entries]

\* Answers of the structured extraction call.
ExtractionResponses ==
    {[text |-> "missing", value |-> EmptyObject],
     [text |-> "invalid", value |-> EmptyObject],
     [text |-> "json", value |-> [EmptyObject EXCEPT !.kind = "null"]],
     [text |-> "json",
      value |-> Object("style", <<Entry(<<"a">>, "url-1"), Entry(<<"B">>, "url-2")>>)],
     [text |-> "json",
      value |-> Object("", <<Entry(<<"B">>, ""), Entry(<<"b">>, "url-2"),
                             Entry(<<"A">>, "url-1")>>)],
     [text |-> "json",
      value |-> Object(Null, <<[hasName |-> FALSE, dishName |-> <<>>,
                                imageUrl |-> Null]>>)]}

\* The catch block going back to the first step.
ContextFailedToMenu(kind) ==
    /\ handleError(IF kind = "Error" THEN ErrContext ELSE ErrUnknown)
    /\ step' = MENU_INPUT
    /\ ctx' = [ctx EXCEPT !.pc = "idle", !.sources = <<>>, !.failedAt = ctx.pc]
    /\ UnmountContextualizer
    /\ UNCHANGED <<menuText, dishNames, contextualInfo, generatedDishes>>

\* The catch block also dropping the selected dishes.
ContextFailedDropsDishes(kind) ==
    /\ handleError(IF kind = "Error" THEN ErrContext ELSE ErrUnknown)
    /\ step' = CONTEXT_INPUT
    /\ ctx' = [ctx EXCEPT !.pc = "idle", !.sources = <<>>, !.failedAt = ctx.pc]
    /\ UnmountContextualizer
    /\ dishNames' = <<>>
    /\ UNCHANGED <<menuText, contextualInfo, generatedDishes>>

\* The catch and finally blocks of handleContextualize.
ContextFailed(kind) ==
    /\ handleError(IF kind = "Error" THEN ErrContext ELSE ErrUnknown)
    /\ step' = CONTEXT_INPUT
    /\ ctx' = [ctx EXCEPT !.pc = "idle", !.sources = <<>>, !.failedAt = ctx.pc]
    /\ UnmountContextualizer
    /\ UNCHANGED <<menuText, dishNames, contextualInfo, generatedDishes>>

\* The grounded search call resolves: lines 156-178 of getContextualInfo.
SearchResolve(metadata) ==
    /\ ctx.pc = "search"
    /\ ctx' = [ctx EXCEPT !.pc = "extract", !.sources = GroundingSources(metadata),
                        !.extractions = @ + 1]
    /\ UNCHANGED last
    /\ UNCHANGED <<appVars, miVars, dsVars, restaurantName, genVars, histVars, pureVars>>
    /\ Visit

\* The rejection of the search call swallowed: the extraction call is issued
\* with no sources.
SearchRejectGoesOn(kind) ==
    /\ ctx.pc = "search"
    /\ ctx' = [ctx EXCEPT !.pc = "extract", !.extractions = @ + 1,
                          !.failedAt = "search"]
    /\ UNCHANGED last
    /\ UNCHANGED <<appVars, miVars, dsVars, restaurantName, genVars, histVars, pureVars>>
    /\ Visit

\* The grounded search call rejects.
SearchReject(kind) ==
    /\ ctx.pc = "search"
    /\ ContextFailed(kind)
    /\ last' = "contextFailed"
    /\ UNCHANGED <<miVars, dsVars, genVars, histVars, pureVars>>
    /\ Visit

\* The extraction call resolves: lines 208-225, then lines 60-61 and 70, or
\* the catch block when the post-processing throws.
ExtractResolve(response) ==
    /\ ctx.pc = "extract"
    /\ IF PostProcessThrows(response, pre.dishNames)
       THEN /\ ContextFailed("Error")
            /\ last' = "contextFailed"
       ELSE /\ contextualInfo' =
                  <<ContextualInfoOf(response, ctx.sources, pre.dishNames)>>
            /\ step' = CONTEXT_VALIDATION
            /\ isLoading' = FALSE
            /\ ctx' = [ctx EXCEPT !.pc = "idle", !.sources = <<>>]
            /\ last' = "contextFound"
            /\ UNCHANGED <<error, menuText, dishNames, generatedDishes, restaurantName>>
    /\ UNCHANGED <<miVars, dsVars, genVars, histVars, pureVars>>
    /\ Visit

\* The extraction call rejects.
ExtractReject(kind) ==
    /\ ctx.pc = "extract"
    /\ ContextFailed(kind)
    /\ last' = "contextFailed"
    /\ UNCHANGED <<miVars, dsVars, genVars, histVars, pureVars>>
    /\ Visit

\* ------------------------------------------------- the calls of a batch

\* urlToGenerativePart of invocation i settles.
FetchSettle(i, outcome) ==
    /\ i \in 1..Len(calls)
    /\ calls[i].pc = "fetch"
    /\ AfterAwait([calls EXCEPT ![i] = AfterFetch(calls[i], outcome)], i)
    /\ UNCHANGED last
    /\ UNCHANGED <<miVars, dsVars, cxVars, late, histVars, pureVars>>
    /\ Visit

\* The image-to-image call of invocation i settles.
ImageToImageSettle(i, outcome) ==
    /\ i \in 1..Len(calls)
    /\ calls[i].pc = "i2i"
    /\ AfterAwait([calls EXCEPT ![i] = AfterImageToImage(calls[i], outcome, i)], i)
    /\ last' = IF batch = "waiting" /\ batch' = "fulfilled" THEN "batchDone" ELSE last
    /\ UNCHANGED <<miVars, dsVars, cxVars, late, histVars, pureVars>>
    /\ Visit

\* The text-to-image call of invocation i settles.
TextToImageSettle(i, outcome) ==
    /\ i \in 1..Len(calls)
    /\ calls[i].pc = "t2i"
    /\ AfterAwait([calls EXCEPT ![i] = AfterTextToImage(calls[i], outcome, i)], i)
    /\ last' = IF batch = "waiting" /\ batch' = "fulfilled" THEN "batchDone"
               ELSE IF batch = "waiting" /\ batch' = "rejected" THEN "batchFailed"
               ELSE last
    /\ UNCHANGED <<miVars, dsVars, cxVars, late, histVars, pureVars>>
    /\ Visit

\* An invocation of an earlier batch with a catch of its own: its rejection
\* is reported when it arrives.
LateSettleWrites ==
    /\ late > 0
    /\ late' = late - 1
    /\ handleError(ErrGenApi)
    /\ step' = CONTEXT_INPUT
    /\ UNCHANGED last
    /\ UNCHANGED <<menuText, dishNames, contextualInfo, generatedDishes, miVars,
                   dsVars, cxVars, calls, batch, histVars, pureVars>>
    /\ Visit

\* An invocation of an earlier batch settles: its Promise.all has settled.
LateSettle ==
    /\ late > 0
    /\ late' = late - 1
    /\ UNCHANGED last
    /\ UNCHANGED <<appVars, miVars, dsVars, cxVars, calls, batch, histVars, pureVars>>
    /\ Visit

\* ------------------------------------------------------------- Start Over

\* The button of the error overlay and of ImageGallery.  The invocations
\* that have not settled go on running.
StartOver ==
    /\ ErrorOverlay \/ ImageGalleryShown
    /\ late + Pending(calls) <= MaxLate
    /\ resetState
    /\ calls' = <<>>
    /\ batch' = "none"
    /\ late' = late + Pending(calls)
    /\ pre' = NoPre
    /\ origin' = "none"
    /\ resolverCalls' = 0
    /\ visited' = {MENU_INPUT}
    /\ last' = "reset"
    /\ ctx' = CtxIdle
    /\ UNCHANGED <<miVars, dsVars, restaurantName, pureVars>>

\* ------------------------------------------------------------ specification

Next ==
    \/ \E mode \in {"image", "text"} : SetMode(mode)
    \/ \E text \in TypedTexts : SetText(text)
    \/ HandleTextSubmit
    \/ \E isImage \in BOOLEAN : ProcessFile(isImage)
    \/ \E hasBase64 \in BOOLEAN : ReaderLoad(hasBase64)
    \/ ReaderError
    \/ \E responseText \in OcrTexts : OcrResolve(responseText)
    \/ \E kind \in ThrowKinds : OcrReject(kind)
    \/ \E outcome \in ExtractOutcomes, aiDishes \in AiDishLists :
          ExtractSettle(outcome, aiDishes)
    \/ \E index \in 1..3, value \in DishInputs : HandleDishChange(index, value)
    \/ HandleSubmit
    \/ \E name \in RestaurantInputs : SetRestaurantName(name)
    \/ HandleSearch
    \/ Skip
    \/ \E useContext \in BOOLEAN : HandleFinalize(useContext)
    \/ \E metadata \in GroundingMetadatas : SearchResolve(metadata)
    \/ \E kind \in ThrowKinds : SearchReject(kind)
    \/ \E response \in ExtractionResponses : ExtractResolve(response)
    \/ \E kind \in ThrowKinds : ExtractReject(kind)
    \/ \E i \in 1..3, outcome \in FetchOutcomes : FetchSettle(i, outcome)
    \/ \E i \in 1..3, outcome \in I2IOutcomes : ImageToImageSettle(i, outcome)
    \/ \E i \in 1..3, outcome \in T2IOutcomes : TextToImageSettle(i, outcome)
    \/ LateSettle
    \/ StartOver

Spec == Init /\ [][Next]_vars


\* An issued call, or the FileReader, resolves or rejects.
CallSettles ==
    \/ \E hasBase64 \in BOOLEAN : ReaderLoad(hasBase64)
    \/ ReaderError
    \/ \E responseText \in OcrTexts : OcrResolve(responseText)
    \/ \E kind \in ThrowKinds : OcrReject(kind)
    \/ \E outcome \in ExtractOutcomes, aiDishes \in AiDishLists :
          ExtractSettle(outcome, aiDishes)
    \/ \E metadata \in GroundingMetadatas : SearchResolve(metadata)
    \/ \E kind \in ThrowKinds : SearchReject(kind)
    \/ \E response \in ExtractionResponses : ExtractResolve(response)
    \/ \E kind \in ThrowKinds : ExtractReject(kind)
    \/ \E i \in 1..3, outcome \in FetchOutcomes : FetchSettle(i, outcome)
    \/ \E i \in 1..3, outcome \in I2IOutcomes : ImageToImageSettle(i, outcome)
    \/ \E i \in 1..3, outcome \in T2IOutcomes : TextToImageSettle(i, outcome)
    \/ LateSettle

\* The wizard when no issued call stays pending forever: the continuation of
\* an await runs once its promise has settled.
SpecLive == Init /\ [][Next]_vars /\ WF_vars(CallSettles)


\* ------------------------------------------- getContextualInfo on its own

MaxDishes == 3
MaxEntries == 3

RECURSIVE SeqsUpTo(_, _)
\* The sequences of at most n elements of S.
SeqsUpTo(S, n) ==
    IF n = 0 THEN {<<>>}
    ELSE LET shorter == SeqsUpTo(S, n - 1)
         IN  shorter \cup {Append(q, x) : q \in {r \in shorter : Len(r) = n - 1}, x \in S}

\* The dish names a caller may request.
RequestedNames == {<<"A">>, <<"a">>, <<"b">>}

\* The entries the extraction call may put in dishContexts: a name in another
\* letter case, the same dish twice, an empty URL, a dish nobody requested,
\* an entry without dishName.
ModelEntries ==
    {Entry(<<"a">>, "url-1"), Entry(<<"A">>, "url-2"), Entry(<<"B">>, ""),
     Entry(<<"c">>, "url-3"),
     [hasName |-> FALSE, dishName |-> <<>>, imageUrl |-> Null]}

ContextResponses ==
    {[text |-> "missing", value |-> EmptyObject],
     [text |-> "invalid", value |-> EmptyObject],
     [text |-> "json", value |-> [EmptyObject EXCEPT !.kind = "null"]],
     [text |-> "json", value |-> EmptyObject]}
    \cup {[text |-> "json", value |-> Object("style", entries)] :
            entries \in SeqsUpTo(ModelEntries, MaxEntries)}

ContextInputs ==
    [dishes : SeqsUpTo(RequestedNames, MaxDishes),
     response : ContextResponses,
     metadata : GroundingMetadatas]

InitContext ==
    /\ InitWizard
    /\ input \in {<<i>> : i \in ContextInputs}
    /\ output = <<>>

\* getContextualInfo(restaurantName, dishes) returns.
GetContextualInfoReturns ==
    /\ output = <<>>
    /\ ~PostProcessThrows(input[1].response, input[1].dishes)
    /\ output' = <<[threw |-> FALSE,
                    value |-> ContextualInfoOf(input[1].response,
                                               GroundingSources(input[1].metadata),
                                               input[1].dishes)]>>
    /\ UNCHANGED <<appVars, miVars, dsVars, cxVars, genVars, histVars, visited,
                   last, input>>

\* getContextualInfo(restaurantName, dishes) throws in lines 208-225.
GetContextualInfoThrows ==
    /\ output = <<>>
    /\ PostProcessThrows(input[1].response, input[1].dishes)
    /\ output' = <<[threw |-> TRUE, value |-> <<>>]>>
    /\ UNCHANGED <<appVars, miVars, dsVars, cxVars, genVars, histVars, visited,
                   last, input>>

NextContext == GetContextualInfoReturns \/ GetContextualInfoThrows

SpecContext == InitContext /\ [][NextContext]_vars

\* --------------------------------------- extractDishesFromMenu on its own

MaxMenuLines == 2

\* Lines of a menu: priced dishes, a thousands separator and a fraction, a
\* heading in capitals, a name of three letters, padding, a blank line, a
\* bare price, a number of more than three digits, and names of 49 and of 50
\* letters.
MenuLines ==
    {<<"G", "r", "i", "l", "l", "e", "d", " ", "S", "a", "l", "m", "o", "n", " ", "$", "2", "4">>,
     <<"C", "a", "e", "s", "a", "r", " ", "S", "a", "l", "a", "d", " ", "$", "1", "2">>,
     <<"S", "o", "u", "p", " ", "1", ",", "2", "0", "0", ".", "5", "0">>,
     <<"P", "I", "E", "S">>,
     <<"P", "i", "e", " ", "4">>,
     <<" ", "E", "g", "g", "s", " ">>,
     <<>>,
     <<"1", "2", ".", "5">>,
     <<"a", "b", " ", "1", "2", "3", "4", "5">>,
     [i \in 1..49 |-> "a"], [i \in 1..50 |-> "a"]}

RECURSIVE JoinLines(_)
\* lines.join("\n")
JoinLines(lines) ==
    IF Len(lines) = 0 THEN <<>>
    ELSE IF Len(lines) = 1 THEN lines[1]
    ELSE lines[1] \o <<"\n">> \o JoinLines(Tail(lines))

MenuTexts == {JoinLines(ls) : ls \in SeqsUpTo(MenuLines, MaxMenuLines)}

ExtractInputs ==
    [text : MenuTexts, outcome : ExtractOutcomes, aiDishes : AiDishLists]

InitExtract ==
    /\ InitWizard
    /\ input \in {<<i>> : i \in ExtractInputs}
    /\ output = <<>>

\* How extractDishesFromMenu ends: "empty" (line 62), "model" (line 92) or
\* "heuristic" (line 101).  Nothing is thrown outside the try block and the
\* catch block throws nothing, so the promise is never rejected.
ExtractPath(text, outcome) ==
    IF Trim(text) = <<>> THEN "empty"
    ELSE IF outcome = "stringArray" THEN "model"
    ELSE "heuristic"

\* The AI calls extractDishesFromMenu issues: none when line 62 returns.
AiCallsIssued(text) == IF Trim(text) = <<>> THEN 0 ELSE 1

\* extractDishesFromMenu(menuText) settles.
ExtractDishes ==
    /\ output = <<>>
    /\ output' = <<[threw |-> FALSE,
                    path |-> ExtractPath(input[1].text, input[1].outcome),
                    aiCalls |-> AiCallsIssued(input[1].text),
                    value |-> extractDishesFromMenu(input[1].text, input[1].outcome,
                                                    input[1].aiDishes)]>>
    /\ UNCHANGED <<appVars, miVars, dsVars, cxVars, genVars, histVars, visited,
                   last, input>>

NextExtract == ExtractDishes

SpecExtract == InitExtract /\ [][NextExtract]_vars

\* ----------------------------------------------- findDishInMenu on its own

\* dishName with no escaping: a dot of the name matches any character.
RegExpSourceUnescaped(dishName) ==
    [i \in 1..Len(dishName) |-> [any |-> dishName[i] = ".", char |-> dishName[i]]]

\* The source of dishRegex: replace(/[-\/\\^$*+?.()|[\]{}]/g, "\\$&") makes
\* every character of dishName a literal.
RegExpSource(dishName) ==
    [i \in 1..Len(dishName) |-> [any |-> FALSE, char |-> dishName[i]]]

\* The pattern, with flag "i", matches the line from position p.
MatchesAt(pattern, line, p) ==
    /\ p + Len(pattern) - 1 <= Len(line)
    /\ \A i \in 1..Len(pattern) :
          \/ pattern[i].any
          \/ LowerChar(line[p + i - 1]) = LowerChar(pattern[i].char)

\* The position of the leftmost match, 0 when there is none.
FirstMatch(pattern, line) ==
    LET at == {p \in 1..(Len(line) + 1) : MatchesAt(pattern, line, p)}
    IN  IF at = {} THEN 0 ELSE CHOOSE p \in at : \A q \in at : p <= q

\* dishRegex.test(line): the regex has neither flag g nor flag y, so it
\* keeps no lastIndex between calls.
RegExpTest(pattern, line) == FirstMatch(pattern, line) # 0

\* description.replace(dishRegex, "")
ReplaceFirst(pattern, line) ==
    LET p == FirstMatch(pattern, line)
    IN  IF p = 0 THEN line
        ELSE SubSeq(line, 1, p - 1) \o Drop(line, p + Len(pattern) - 1)

\* line.match(/(\$|\d)/)
HasPriceChar(line) == \E i \in 1..Len(line) : line[i] \in Digits \cup {"$"}

\* The longest run of digits s begins with.
LeadingDigits(s) ==
    CHOOSE k \in 0..Len(s) :
        /\ AllDigits(SubSeq(s, 1, k))
        /\ k < Len(s) => s[k + 1] \notin Digits

\* The length of the greedy match of (,\d{3})* at the start of s.
RECURSIVE ThousandsLength(_)
ThousandsLength(s) ==
    IF Len(s) >= 4 /\ s[1] = "," /\ AllDigits(SubSeq(s, 2, 4))
    THEN 4 + ThousandsLength(Drop(s, 4))
    ELSE 0

\* The length of the greedy match of (\.\d+)? at the start of s.
FractionLength(s) ==
    IF Len(s) >= 2 /\ s[1] = "." /\ s[2] \in Digits
    THEN 1 + LeadingDigits(Drop(s, 1))
    ELSE 0

\* The length of the match of (\$|\d{1,3}(,\d{3})*(\.\d+)?) at the start of
\* s, 0 when there is none.
PriceLength(s) ==
    IF s = <<>> THEN 0
    ELSE IF s[1] = "$" THEN 1
    ELSE IF s[1] \in Digits
    THEN LET d == IF LeadingDigits(s) > 3 THEN 3 ELSE LeadingDigits(s)
             t == ThousandsLength(Drop(s, d))
         IN  d + t + FractionLength(Drop(s, d + t))
    ELSE 0

\* s.replace(/(\$|\d{1,3}(,\d{3})*(\.\d+)?)/g, "")
RECURSIVE RemovePrices(_)
RemovePrices(s) ==
    IF s = <<>> THEN <<>>
    ELSE IF PriceLength(s) > 0 THEN RemovePrices(Drop(s, PriceLength(s)))
    ELSE <<Head(s)>> \o RemovePrices(Tail(s))

\* findDishInMenu: None for null, else the excerpt.
findDishInMenu(dishName, text) ==
    LET lines == Split(text)
        dishRegex == RegExpSource(dishName)
        dishLineIndex == FindIndex(lines, LAMBDA line : RegExpTest(dishRegex, line))
    IN  IF dishLineIndex = 0 THEN <<>>
        ELSE LET description ==
                     IF /\ dishLineIndex + 1 <= Len(lines)
                        /\ ~HasPriceChar(lines[dishLineIndex + 1])
                     THEN lines[dishLineIndex] \o <<" ">> \o lines[dishLineIndex + 1]
                     ELSE lines[dishLineIndex]
             IN  <<Trim(RemovePrices(ReplaceFirst(dishRegex, description)))>>

MaxExcerptLines == 3
MaxEvaluations == 2

ExcerptNames == {<<>>, <<"a", "b">>, <<"B">>, <<".">>, <<"$", "2">>}
ExcerptLines ==
    {<<>>,
     <<"A", "B", " ", "1", ",", "0", "0", "0", ".", "5", " ", "x">>,
     <<"x", "b", " ", "$", "2">>,
     <<"x">>,
     <<"a", ".", "b">>}

ExcerptInputs ==
    [dishName : ExcerptNames,
     menuText : {JoinLines(ls) : ls \in SeqsUpTo(ExcerptLines, MaxExcerptLines)}]

InitExcerpt ==
    /\ InitWizard
    /\ input \in {<<i>> : i \in ExcerptInputs}
    /\ output = <<>>

\* One more evaluation of findDishInMenu(dishName, menuText); output lists
\* the results of the evaluations so far.
FindDishInMenu ==
    /\ Len(output) < MaxEvaluations
    /\ output' = Append(output, findDishInMenu(input[1].dishName, input[1].menuText))
    /\ UNCHANGED <<appVars, miVars, dsVars, cxVars, genVars, histVars, visited,
                   last, input>>

NextExcerpt == FindDishInMenu

SpecExcerpt == InitExcerpt /\ [][NextExcerpt]_vars

\* ------------------------------- the sources of getContextualInfo's result

MaxChunks == 3

\* Grounding chunks: without web, with title and uri, without title, without
\* uri, with the placeholder as uri, with both empty.
Chunks ==
    {[title |-> Null, uri |-> Null], [title |-> "title-1", uri |-> "uri-1"],
     [title |-> Null, uri |-> "uri-2"], [title |-> "title-3", uri |-> Null],
     [title |-> "title-4", uri |-> "#"], [title |-> "", uri |-> ""]}

\* groundingMetadata: None, or its groundingChunks.
ChunkMetadatas == {<<>>} \cup {<<chunks>> : chunks \in SeqsUpTo(Chunks, MaxChunks)}

SourcesInputs ==
    [dishes : {<<<<"A">>>>},
     response : {[text |-> "missing", value |-> EmptyObject],
                 [text |-> "invalid", value |-> EmptyObject],
                 [text |-> "json",
                  value |-> Object("style", <<Entry(<<"a">>, "url-1")>>)]},
     metadata : ChunkMetadatas]

InitSources ==
    /\ InitWizard
    /\ input \in {<<i>> : i \in SourcesInputs}
    /\ output = <<>>

SpecSources == InitSources /\ [][NextContext]_vars

\* ------------------------------------------------------------------- claims

Resolved(i) == calls[i].pc = "resolved"
Rejected(i) == calls[i].pc = "rejected"

\* C1: after Start Over, and until the next write of App state, the wizard is
\* at MENU_INPUT with menuText empty, dishNames empty, contextualInfo absent,
\* generatedDishes empty, error absent and isLoading false.
C1_ResetClearsAll ==
    last = "reset" =>
        /\ step = MENU_INPUT
        /\ menuText = <<>>
        /\ dishNames = <<>>
        /\ contextualInfo = <<>>
        /\ generatedDishes = <<>>
        /\ error = Null
        /\ ~isLoading

\* A reset of a session whose batch failed with an invocation still running.
C1_Witness == last = "reset" /\ late > 0 /\ step = MENU_INPUT

\* C2: once an invocation of the batch has failed, generatedDishes is empty,
\* the step is not RESULTS and an error is set, whatever the others do; and
\* generatedDishes is never of a length other than 0 or the number of dishes.
C2_AllOrNothing ==
    /\ (\E i \in 1..Len(calls) : Rejected(i)) =>
          /\ generatedDishes = <<>>
          /\ step # RESULTS
          /\ Truthy(error)
    /\ Len(generatedDishes) \in {0, Len(dishNames)}

\* Of three invocations one has failed and the two others have succeeded.
C2_Witness ==
    /\ Len(calls) = 3
    /\ Cardinality({i \in 1..3 : Rejected(i)}) = 1
    /\ Cardinality({i \in 1..3 : Resolved(i)}) = 2

\* C3: after a failed context search the error is set, the step is
\* CONTEXT_INPUT, menuText and dishNames are what they were when the search
\* was started, contextualInfo is absent and isLoading is false.
C3_ContextFailureState ==
    last = "contextFailed" =>
        /\ Truthy(error)
        /\ step = CONTEXT_INPUT
        /\ dishNames = pre.dishNames
        /\ menuText = pre.menuText
        /\ contextualInfo = <<>>
        /\ ~isLoading

\* A failed search for three dishes of a pasted menu.
C3_Witness ==
    last = "contextFailed" /\ Len(dishNames) = 3 /\ menuText = Menu1

\* C4: after a failed batch the error is set, the step is CONTEXT_INPUT,
\* menuText and dishNames are what they were when the batch was started,
\* contextualInfo is absent and generatedDishes is empty, whether the batch
\* was started by a skip, an accept or a reject.
C4_BatchFailureState ==
    last = "batchFailed" =>
        /\ Truthy(error)
        /\ step = CONTEXT_INPUT
        /\ menuText = pre.menuText
        /\ dishNames = pre.dishNames
        /\ contextualInfo = <<>>
        /\ generatedDishes = <<>>

\* C5: in a session whose batch was started by Skip, CONTEXT_VALIDATION has
\* not been entered, no getContextualInfo call has been issued, every
\* invocation got contextualSummary null and referenceImageUrl null, the
\* skip itself leads to GENERATING, and a fulfilled batch leaves the wizard
\* at RESULTS with one GeneratedDish per dish name, in order.
C5_SkipGeneratesWithoutContext ==
    origin = "skip" =>
        /\ CONTEXT_VALIDATION \notin visited
        /\ resolverCalls = 0
        /\ ctx.pc = "idle"
        /\ Len(calls) = Len(dishNames)
        /\ \A i \in 1..Len(calls) :
              /\ calls[i].name = dishNames[i]
              /\ calls[i].summary = Null
              /\ calls[i].refUrl = Null
        /\ last = "skip" => step = GENERATING
        /\ batch = "waiting" => step = GENERATING
        /\ batch = "fulfilled" =>
              /\ step = RESULTS
              /\ Len(generatedDishes) = Len(dishNames)
              /\ \A i \in 1..Len(dishNames) : generatedDishes[i].name = dishNames[i]

\* A skipped context with all three images generated.
C5_Witness == origin = "skip" /\ step = RESULTS /\ Len(generatedDishes) = 3

\* C6: every change of step is one of the listed ones; MENU_INPUT is entered
\* by a reset only, RESULTS from GENERATING only, CONTEXT_VALIDATION from
\* CONTEXT_INPUT only and with the context a successful search has returned.
StepChanges ==
    {<<MENU_INPUT, DISH_SELECTION>>, <<DISH_SELECTION, CONTEXT_INPUT>>,
     <<CONTEXT_INPUT, CONTEXT_VALIDATION>>, <<CONTEXT_INPUT, GENERATING>>,
     <<CONTEXT_VALIDATION, GENERATING>>, <<GENERATING, RESULTS>>,
     <<GENERATING, CONTEXT_INPUT>>}

C6_StepTransitions ==
    [][step' # step =>
          /\ \/ <<step, step'>> \in StepChanges
             \/ step' = MENU_INPUT /\ last' = "reset"
          /\ step' = RESULTS => step = GENERATING
          /\ step' = CONTEXT_VALIDATION =>
                /\ step = CONTEXT_INPUT
                /\ last' = "contextFound"
                /\ contextualInfo' # <<>>
          /\ <<step, step'>> = <<CONTEXT_INPUT, GENERATING>> => last' = "skip"
          /\ <<step, step'>> = <<GENERATING, CONTEXT_INPUT>> => last' = "batchFailed"
      ]_vars

\* The whole forward path has been walked.
C6_Witness == step = RESULTS /\ visited = AppStep

\* C7: while the error is set, a step either is the reset, which leads to
\* MENU_INPUT with everything cleared, or writes no state of App or of a
\* component and starts no call.
C7_ErrorAllowsOnlyReset ==
    [][Truthy(error) =>
          \/ /\ UNCHANGED <<appVars, miVars, dsVars, cxVars, batch, histVars>>
             /\ Len(calls') = Len(calls)
          \/ /\ last' = "reset"
             /\ step' = MENU_INPUT
             /\ error' = Null
             /\ menuText' = <<>>
             /\ dishNames' = <<>>
             /\ contextualInfo' = <<>>
             /\ generatedDishes' = <<>>
      ]_vars

\* The error is shown while invocations of the failed batch are running.
C7_Witness == Truthy(error) /\ Pending(calls) > 0 /\ step = CONTEXT_INPUT

C10_ReferenceFailureFallsBack ==
    \A i \in 1..Len(calls) :
        Truthy(calls[i].refUrl) =>
            /\ Rejected(i) =>
                  /\ calls[i].t2iCalls = 1
                  /\ calls[i].t2iOut \in {"noImage", "threw"}
            /\ calls[i].refFailed =>
                  /\ calls[i].t2iCalls = 1
                  /\ calls[i].pc \in {"t2i", "resolved", "rejected"}
                  /\ Resolved(i) =>
                        /\ calls[i].result = calls[i].t2iOut
                        /\ \E k \in 1..3 : calls[i].result = T2IImages[k]
                  /\ calls[i].pc = "t2i" => calls[i].t2iOut = "none"

\* The image-to-image call failed and the fallback produced the image.
C10_Witness ==
    \E i \in 1..Len(calls) :
        /\ Truthy(calls[i].refUrl)
        /\ calls[i].refFailed
        /\ calls[i].i2iCalls = 1
        /\ Resolved(i)

\* The entries of the answer, [] when it has no dishContexts.
AnswerEntries ==
    IF input[1].response.text = "json" /\ input[1].response.value.hasDishContexts
    THEN input[1].response.value.dishContexts
    ELSE <<>>

\* Equality up to letter case.
SameName(a, b) == ToUpperCase(a) = ToUpperCase(b)

\* The positions of the entries of the answer that are named as the dish is.
MatchesOf(dishName) ==
    {k \in 1..Len(AnswerEntries) :
        AnswerEntries[k].hasName /\ SameName(AnswerEntries[k].dishName, dishName)}

FirstOf(S) == CHOOSE k \in S : \A j \in S : k <= j

Returned == output # <<>> /\ ~output[1].threw

\* The result has one entry per requested dish, in the order of the request.
OnePerDish ==
    /\ Len(output[1].value.dishContexts) = Len(input[1].dishes)
    /\ \A i \in 1..Len(input[1].dishes) :
          output[1].value.dishContexts[i].dishName = input[1].dishes[i]

\* C9 as stated: a returned result has one entry per requested dish, in
\* order, whose imageUrl is that of the first entry of the answer with the
\* same name up to letter case, and absent when there is none.
C9_ImageUrlOfFirstMatch ==
    Returned =>
        /\ OnePerDish
        /\ \A i \in 1..Len(input[1].dishes) :
              LET matches == MatchesOf(input[1].dishes[i])
              IN  output[1].value.dishContexts[i].imageUrl =
                     IF matches = {} THEN Null
                     ELSE AnswerEntries[FirstOf(matches)].imageUrl

\* C9 as amended: a returned result has one entry per requested dish, in
\* order, whose imageUrl is that of the first entry of the answer with the
\* same name up to letter case when that is a non-empty string, and absent
\* when it is empty or absent or when there is no such entry.
C9_NonEmptyImageUrlOfFirstMatch ==
    Returned =>
        /\ OnePerDish
        /\ \A i \in 1..Len(input[1].dishes) :
              LET matches == MatchesOf(input[1].dishes[i])
                  url == IF matches = {} THEN Null
                         ELSE AnswerEntries[FirstOf(matches)].imageUrl
              IN  output[1].value.dishContexts[i].imageUrl =
                     IF url = "" THEN Null ELSE url

\* Three dishes against an answer in another order and letter case, with the
\* same dish twice and a dish nobody requested: the first match decides, the
\* empty URL and the missing entry come out absent.
C9_Witness ==
    /\ Returned
    /\ input[1].dishes = <<<<"b">>, <<"A">>, <<"a">>>>
    /\ AnswerEntries =
          <<Entry(<<"c">>, "url-3"), Entry(<<"a">>, "url-1"), Entry(<<"A">>, "url-2")>>
    /\ output[1].value.dishContexts[2].imageUrl = "url-1"
    /\ output[1].value.dishContexts[1].imageUrl = Null

\* The heuristic fallback has produced the result.
FellBack == output # <<>> /\ output[1].path = "heuristic"

IsPrefix(a, b) == Len(a) <= Len(b) /\ SubSeq(b, 1, Len(a)) = a

RECURSIVE InLineOrder(_, _)
\* The elements are taken, in order, from distinct lines, each the beginning
\* of its trimmed line.
InLineOrder(elements, lines) ==
    IF elements = <<>> THEN TRUE
    ELSE IF lines = <<>> THEN FALSE
    ELSE \/ /\ IsPrefix(Head(elements), Trim(Head(lines)))
            /\ InLineOrder(Tail(elements), Tail(lines))
         \/ InLineOrder(elements, Tail(lines))

\* C11: every element of the heuristic fallback's result is longer than 3
\* and shorter than 50, contains a letter and a letter that is not a
\* capital, and the elements come in the order of their lines.
C11_HeuristicElements ==
    FellBack =>
        /\ \A k \in 1..Len(output[1].value) :
              LET element == output[1].value[k]
              IN  /\ Len(element) > 3
                  /\ Len(element) < 50
                  /\ \E i \in 1..Len(element) : IsLower(element[i])
        /\ InLineOrder(output[1].value, Split(input[1].text))

\* A name of 49 letters is kept and the name of 50 letters after it is not.
C11_Witness ==
    /\ FellBack
    /\ Len(Split(input[1].text)) = 2
    /\ Len(Split(input[1].text)[1]) = 49
    /\ Len(Split(input[1].text)[2]) = 50
    /\ output[1].value = <<Split(input[1].text)[1]>>

\* A dish name, a space, a currency symbol and digits.
PricedLine(line) ==
    \E d \in 3..(Len(line) - 1) :
        /\ line[d] = "$"
        /\ line[d - 1] = " "
        /\ AllDigits(SubSeq(line, d + 1, Len(line)))
        /\ \A i \in 1..(d - 2) : line[i] \notin Digits \cup {"$"}

NameOfPricedLine(line) ==
    SubSeq(line, 1, (CHOOSE d \in 1..Len(line) : line[d] = "$") - 2)

\* C12: for a menu whose lines are each a dish name, a space, a currency
\* symbol and digits, the heuristic fallback returns exactly the dish names.
C12_PricedLinesYieldNames ==
    LET lines == Split(input[1].text)
    IN  (FellBack /\ \A i \in 1..Len(lines) : PricedLine(lines[i])) =>
            output[1].value = [i \in 1..Len(lines) |-> NameOfPricedLine(lines[i])]

\* C13: extractDishesFromMenu is never rejected; whenever its AI call has
\* not returned an array of strings it resolves with the heuristic
\* fallback's result, and it resolves with the model's list only when that
\* call has returned an array of strings.
C13_ExtractNeverFails ==
    output # <<>> =>
        /\ ~output[1].threw
        /\ input[1].outcome # "stringArray" =>
              output[1].value = HeuristicDishes(input[1].text)
        /\ (input[1].outcome = "stringArray" /\ Trim(input[1].text) # <<>>) =>
              output[1].value = input[1].aiDishes
        /\ output[1].path = "model" => input[1].outcome = "stringArray"

\* The model has answered with an array holding a non-string, and the two
\* priced lines are parsed by the heuristic.
C13_Witness ==
    /\ output # <<>>
    /\ input[1].outcome = "nonStringElement"
    /\ input[1].aiDishes # <<>>
    /\ Len(output[1].value) = 2
    /\ output[1].value # input[1].aiDishes

\* The line contains the name as a literal, whatever the letter case.
ContainsName(line, name) ==
    \E p \in 1..(Len(line) - Len(name) + 1) :
        ToUpperCase(SubSeq(line, p, p + Len(name) - 1)) = ToUpperCase(name)

RECURSIVE IsSubsequence(_, _)
\* The characters of a occur in b, in order.
IsSubsequence(a, b) ==
    IF a = <<>> THEN TRUE
    ELSE IF b = <<>> THEN FALSE
    ELSE IF Head(a) = Head(b) THEN IsSubsequence(Tail(a), Tail(b))
    ELSE IsSubsequence(a, Tail(b))

C15_ResultsInRequestOrder ==
    (batch = "fulfilled" /\ step = RESULTS) =>
        /\ Len(generatedDishes) = Len(dishNames)
        /\ Len(calls) = Len(dishNames)
        /\ \A i \in 1..Len(dishNames) :
              /\ generatedDishes[i].name = dishNames[i]
              /\ calls[i].name = dishNames[i]
              /\ Resolved(i)
              /\ generatedDishes[i].imageBase64 = calls[i].result
              /\ calls[i].result \in {I2IImages[i], T2IImages[i], ""}

\* The first two dishes have the same name and each has its own image.
C15_Witness ==
    /\ step = RESULTS
    /\ Len(dishNames) = 3
    /\ dishNames[1] = dishNames[2]
    /\ generatedDishes[1].imageBase64 = T2IImages[1]
    /\ generatedDishes[2].imageBase64 = T2IImages[2]

\* C16: after an accept every invocation has the summary of the found
\* context and the imageUrl of the DishContext of its dish, after a reject
\* every invocation has neither, and either decision leaves the wizard at
\* GENERATING.
C16_ContextDecision ==
    /\ origin = "accept" =>
          /\ contextualInfo # <<>>
          /\ Len(calls) = Len(dishNames)
          /\ \A i \in 1..Len(calls) :
                /\ calls[i].summary = contextualInfo[1].summary
                /\ contextualInfo[1].dishContexts[i].dishName = calls[i].name
                /\ calls[i].refUrl = contextualInfo[1].dishContexts[i].imageUrl
    /\ origin = "reject" =>
          /\ Len(calls) = Len(dishNames)
          /\ \A i \in 1..Len(calls) :
                calls[i].summary = Null /\ calls[i].refUrl = Null
    /\ last \in {"accept", "reject"} =>
          step = GENERATING /\ origin = last /\ CONTEXT_VALIDATION \in visited

\* An accepted context with a reference image for one dish and none for
\* another.
C16_Witness ==
    /\ last = "accept"
    /\ \E i, j \in 1..Len(calls) :
          Truthy(calls[i].refUrl) /\ calls[j].refUrl = Null

\* C17: when the text of the extraction answer is missing or is not JSON,
\* getContextualInfo returns the fallback summary and one DishContext per
\* requested dish, each with an absent imageUrl.
C17_UnreadableAnswerIsEmptyObject ==
    (output # <<>> /\ input[1].response.text \in {"missing", "invalid"}) =>
        /\ ~output[1].threw
        /\ output[1].value.summary = NoSummary
        /\ Len(output[1].value.dishContexts) = Len(input[1].dishes)
        /\ \A i \in 1..Len(input[1].dishes) :
              /\ output[1].value.dishContexts[i].dishName = input[1].dishes[i]
              /\ output[1].value.dishContexts[i].imageUrl = Null

\* C19: an invocation calls the image-to-image model only when it has a
\* reference URL, calls the text-to-image model only when the
\* reference-guided strategy has returned no image, and calls each model at
\* most once.
C19_StrategyOrder ==
    \A i \in 1..Len(calls) :
        /\ calls[i].i2iCalls <= 1
        /\ calls[i].t2iCalls <= 1
        /\ calls[i].i2iCalls = 1 => Truthy(calls[i].refUrl)
        /\ calls[i].pc \in {"fetch", "i2i"} =>
              Truthy(calls[i].refUrl) /\ calls[i].t2iCalls = 0
        /\ calls[i].t2iCalls = 1 =>
              /\ calls[i].result \notin {I2IImages[i], ""}
              /\ calls[i].pc # "t2i" => calls[i].t2iOut # "none"
        /\ (Resolved(i) /\ calls[i].t2iCalls = 0) =>
              /\ calls[i].i2iCalls = 1
              /\ calls[i].result \in {I2IImages[i], ""}

\* One invocation has its image from the image-to-image model and has not
\* called the other model; another, without a reference, has called only
\* the text-to-image model.
C19_Witness ==
    \E i, j \in 1..Len(calls) :
        /\ Resolved(i) /\ calls[i].i2iCalls = 1 /\ calls[i].t2iCalls = 0
        /\ calls[j].refUrl = Null /\ calls[j].i2iCalls = 0 /\ calls[j].t2iCalls = 1

\* C20: an invocation whose text-to-image call has returned no image bytes
\* is rejected with the no-image error, having called that model once; the
\* batch is then rejected: the error is set, with that message when no
\* other invocation has failed, the step is CONTEXT_INPUT and
\* generatedDishes is empty.
C20_NoImageFailsTheBatch ==
    LET noImage == {i \in 1..Len(calls) : calls[i].t2iOut = "noImage"}
    IN  /\ \A i \in noImage :
              /\ Rejected(i)
              /\ calls[i].err = "NoImageError"
              /\ calls[i].t2iCalls = 1
              /\ calls[i].i2iCalls <= 1
        /\ noImage # {} =>
              /\ batch = "rejected"
              /\ Truthy(error)
              /\ step = CONTEXT_INPUT
              /\ generatedDishes = <<>>
              /\ (\A i \in 1..Len(calls) : Rejected(i) => i \in noImage) =>
                    error = ErrGenNoImage

\* The text-to-image model has returned no image to one invocation while
\* another invocation is running.
C20_Witness ==
    /\ error = ErrGenNoImage
    /\ \E i \in 1..Len(calls) : calls[i].t2iOut = "noImage"
    /\ Pending(calls) > 0

\* C18 as stated in its last part: every failure of getContextualInfo is
\* reported as a "Context search failed" error.
C18_FailureReportedAsContextSearchFailed ==
    ctx.failedAt # "none" => error = ErrContext

\* C18 as amended: the extraction call is issued only once the search call
\* has returned, and never after a failed search; each call is issued at
\* most once; a failure of either leaves no context and is reported as
\* "Context search failed: ..." or, when what was thrown is not an Error, as
\* "An unknown error occurred.".
C18_SearchThenExtraction ==
    /\ ctx.searches <= 1
    /\ ctx.extractions <= 1
    /\ resolverCalls <= 1
    /\ ctx.pc = "search" => ctx.searches = 1 /\ ctx.extractions = 0
    /\ ctx.pc = "extract" => ctx.searches = 1 /\ ctx.extractions = 1
    /\ ctx.extractions = 1 => ctx.searches = 1 /\ ctx.pc # "search"
    /\ ctx.failedAt = "search" => ctx.extractions = 0
    /\ ctx.failedAt # "none" =>
          /\ ctx.pc = "idle"
          /\ last = "contextFailed"
          /\ contextualInfo = <<>>
          /\ step = CONTEXT_INPUT
          /\ error \in {ErrContext, ErrUnknown}

\* The extraction call has been rejected with something that is no Error.
C18_Witness ==
    ctx.failedAt = "extract" /\ ctx.extractions = 1 /\ error = ErrUnknown

\* The grounding chunks of the search response, [] without metadata.
AnswerChunks == IF input[1].metadata = <<>> THEN <<>> ELSE input[1].metadata[1]

\* The positions of the chunks that have a URI other than the placeholder.
CitedChunks ==
    {i \in 1..Len(AnswerChunks) :
        AnswerChunks[i].uri \notin {Null, "", "#"}}

\* The k-th cited chunk.
CitedChunk(k) ==
    AnswerChunks[CHOOSE i \in CitedChunks :
                    Cardinality({j \in CitedChunks : j <= i}) = k]

\* C21: the sources of a returned result are the chunks that have a URI, in
\* the order of the metadata, none with the URI "#", each with its title or,
\* for want of one, "Untitled"; without metadata there are none.
C21_SourcesAreTheCitedChunks ==
    Returned =>
        LET sources == output[1].value.sources
        IN  /\ Len(sources) = Cardinality(CitedChunks)
            /\ \A k \in 1..Len(sources) :
                  /\ sources[k].uri # "#"
                  /\ sources[k].uri = CitedChunk(k).uri
                  /\ sources[k].title =
                        IF CitedChunk(k).title \in {Null, ""} THEN "Untitled"
                        ELSE CitedChunk(k).title
            /\ input[1].metadata = <<>> => sources = <<>>

\* A chunk without URI between one without title and one with both: two
\* sources, in that order, the first titled "Untitled".
C21_Witness ==
    /\ Returned
    /\ AnswerChunks = <<[title |-> Null, uri |-> "uri-2"],
                        [title |-> "title-3", uri |-> Null],
                        [title |-> "title-1", uri |-> "uri-1"]>>
    /\ output[1].value.sources = <<[title |-> "Untitled", uri |-> "uri-2"],
                                   [title |-> "title-1", uri |-> "uri-1"]>>

\* Empty or white space only.
Blank(text) == \A i \in 1..Len(text) : text[i] \in WhiteSpace

\* C22: from CONTEXT_INPUT on, dishNames has one to three entries, none of
\* them blank; a submission of three blank inputs, which sets DishSelector's
\* error, leaves the step at DISH_SELECTION and dishNames as it was, empty.
C22_OneToThreeDishes ==
    /\ step \in {CONTEXT_INPUT, CONTEXT_VALIDATION, GENERATING, RESULTS} =>
          /\ Len(dishNames) \in 1..3
          /\ \A i \in 1..Len(dishNames) : ~Blank(dishNames[i])
    /\ step \in {MENU_INPUT, DISH_SELECTION} => dishNames = <<>>
    /\ Truthy(dsError) => step = DISH_SELECTION /\ dishNames = <<>>

\* One dish is generated for: a blank and an empty input were left out.
C22_Witness ==
    /\ step = GENERATING
    /\ Len(dishNames) = 1
    /\ Len(calls) = 1

\* C23: past MENU_INPUT a step that changes menuText is a reset, and past
\* DISH_SELECTION a step that changes dishNames is a reset.
C23_InputsAreFrozen ==
    [][/\ (step # MENU_INPUT /\ menuText' # menuText) =>
              last' = "reset" /\ step' = MENU_INPUT
       /\ (step \notin {MENU_INPUT, DISH_SELECTION} /\ dishNames' # dishNames) =>
              last' = "reset" /\ step' = MENU_INPUT
      ]_vars

\* An accepted context and a failed batch later, both are what they were.
C23_Witness ==
    /\ last = "batchFailed"
    /\ origin = "accept"
    /\ menuText = Menu1
    /\ Len(dishNames) = 2

\* C24: for a blank menu text extractDishesFromMenu resolves with the empty
\* list and issues no AI call; for any other text it issues one.
C24_BlankMenuShortCircuits ==
    output # <<>> =>
        IF Blank(input[1].text)
        THEN /\ ~output[1].threw
             /\ output[1].value = <<>>
             /\ output[1].aiCalls = 0
        ELSE output[1].aiCalls = 1

\* A menu of two empty lines, with a model that would have answered with a
\* list of dishes.
C24_Witness ==
    /\ output # <<>>
    /\ input[1].text = <<"\n">>
    /\ input[1].outcome = "stringArray"
    /\ input[1].aiDishes # <<>>
    /\ output[1].value = <<>>

\* C26: a set error comes with isLoading false; at RESULTS the error is
\* absent, isLoading is false and generatedDishes is as long as dishNames,
\* which is not empty; generatedDishes is empty at every other step.
C26_ErrorLoadingResults ==
    /\ Truthy(error) => ~isLoading
    /\ step = RESULTS =>
          /\ error = Null
          /\ ~isLoading
          /\ Len(generatedDishes) = Len(dishNames)
          /\ Len(dishNames) > 0
    /\ generatedDishes # <<>> => step = RESULTS

\* The results of a session that follows one whose batch has failed.
C26_Witness ==
    /\ step = RESULTS
    /\ Len(generatedDishes) = 2
    /\ late > 0

\* An invocation settles whose batch is rejected already, or that a reset
\* has left behind.
LateCompletion ==
    \/ late' < late
    \/ /\ batch = "rejected"
       /\ Len(calls') = Len(calls)
       /\ calls' # calls

\* C27: the settling of an invocation whose batch has failed, before or
\* after a reset, changes no state of the wizard.
C27_LateCompletionsWriteNothing ==
    [][LateCompletion => UNCHANGED <<appVars, batch>>]_vars

\* A new batch is running while an invocation of the failed batch of the
\* session before is still in flight.
C27_Witness ==
    /\ late > 0
    /\ step = GENERATING
    /\ batch = "waiting"

\* C28: past DISH_SELECTION no call of extractDishesFromMenu is pending: the
\* dishes were submitted after the call for the menu text had settled.
C28_DishesAfterExtraction ==
    /\ step \notin {MENU_INPUT, DISH_SELECTION} => dsCall = "idle"
    /\ last = "dishesSelected" => step = CONTEXT_INPUT /\ dsCall = "idle"

\* The dishes of a pasted menu have been submitted.
C28_Witness ==
    /\ last = "dishesSelected"
    /\ step = CONTEXT_INPUT
    /\ menuText = Menu1
    /\ Len(dishNames) = 3

\* C29: every resolved invocation has a non-empty image, and so has every
\* GeneratedDish at RESULTS.
C29_ImagesAreNonEmpty ==
    /\ \A i \in 1..Len(calls) : Resolved(i) => Truthy(calls[i].result)
    /\ step = RESULTS =>
          \A k \in 1..Len(generatedDishes) : Truthy(generatedDishes[k].imageBase64)

\* C30: past MENU_INPUT menuText is not blank.
C30_MenuTextIsNotBlank ==
    step # MENU_INPUT => ~Blank(menuText)

\* The wizard waits: a batch is generating or a context search is running.
Waiting == step = GENERATING \/ ctx.pc # "idle"

\* C25: when every issued call settles, GENERATING leads to RESULTS or to the
\* error at CONTEXT_INPUT, a context search leads to CONTEXT_VALIDATION or to
\* the error, and isLoading leads to isLoading false. The wizard waits only
\* with isLoading true, and isLoading true leads to isLoading false; the step
\* that ends GENERATING ends in RESULTS or in the error at CONTEXT_INPUT, and
\* the step that ends a context search ends in CONTEXT_VALIDATION or in the
\* error.
C25_NeverWaitsForever ==
    /\ [](Waiting => isLoading)
    /\ [][step = GENERATING /\ ~isLoading' =>
             step' = RESULTS \/ (Truthy(error') /\ step' = CONTEXT_INPUT)]_vars
    /\ [][ctx.pc # "idle" /\ ~isLoading' =>
             step' = CONTEXT_VALIDATION \/ Truthy(error')]_vars
    /\ isLoading ~> ~isLoading

\* A batch that followed a context search has failed and left the error at
\* CONTEXT_INPUT.
C25_Witness ==
    /\ Truthy(error)
    /\ step = CONTEXT_INPUT
    /\ batch = "rejected"
    /\ ctx.searches > 0
    /\ ~isLoading

=============================================================================
